---- MODULE Spec2Model ----
(***************************************************************************)
(* Model of src/main.py: the Streamlit translation helper.                 *)
(*                                                                         *)
(* Every user interaction reruns the script once.  A rerun triggered by a  *)
(* widget edit presses no button; a rerun triggered by a button runs that  *)
(* button's handler to its end (or to an uncaught exception).  The session *)
(* state (st.session_state) and the widget values persist between reruns.  *)
(*                                                                         *)
(* Texts are sequences of one-character strings.  Similarity scores are    *)
(* integers in hundredths (90 is 0.90); the formatted average is an        *)
(* integer in ten-thousandths (7000 is "0.7000").                          *)
(***************************************************************************)
EXTENDS Integers, Sequences, FiniteSets

\* ---------------------------------------------------------------- bounds
MaxVariants == 3
MaxScores == 2
MaxAttempts == 2
MaxRows == 1

\* ------------------------------------------------------------- constants
THRESHOLD == 80

None == <<>>
Some(x) == <<x>>

\* ------------------------------------------------------------ input sets
NameInputs == {<<>>, <<"A">>}
NumberInputs == {<<>>, <<"7">>}
AnswerInputs == {<<" ">>, <<"x">>}
Timestamps == {"2026-01-01 09:00:00"}

\* data/translations.json: the second entry has no "alternatives" key
translations ==
  << [japanese |-> "j1", english |-> "e1", alternatives |-> <<"e1a">>],
     [japanese |-> "j2", english |-> "e2"] >>

\* dict comprehension: a later entry with the same key replaces an earlier one
japanese_to_entry ==
  [j \in {translations[i].japanese : i \in DOMAIN translations} |->
     LET idx == {i \in DOMAIN translations : translations[i].japanese = j}
         last == CHOOSE i \in idx : \A k \in idx : k <= i
     IN translations[last]]

\* list(japanese_to_entry.keys()): insertion order of first occurrence
RECURSIVE KeysFrom(_)
KeysFrom(i) ==
  IF i > Len(translations) THEN <<>>
  ELSE LET j == translations[i].japanese
       IN IF \E k \in 1..(i - 1) : translations[k].japanese = j
          THEN KeysFrom(i + 1)
          ELSE <<j>> \o KeysFrom(i + 1)
Keys == KeysFrom(1)
KeySet == {Keys[i] : i \in DOMAIN Keys}

\* ------------------------------------------------------------ str.strip()
IsSpace(c) == c \in {" "}

RECURSIVE LStrip(_)
LStrip(s) == IF s # <<>> /\ IsSpace(Head(s)) THEN LStrip(Tail(s)) ELSE s

RECURSIVE RStrip(_)
RStrip(s) ==
  IF s # <<>> /\ IsSpace(s[Len(s)]) THEN RStrip(SubSeq(s, 1, Len(s) - 1)) ELSE s

Strip(s) == RStrip(LStrip(s))

\* --------------------------------------------------------------- scorer
\* model = load_model(): the similarity the embeddings give a text and a
\* variant (an opaque pretrained model)
VARIABLE model

VariantNames == {"e1", "e1a", "e2"}

\* the model the program loads
loaded_model ==
  [p \in AnswerInputs \X VariantNames |->
     CASE p[1] = <<"x">> /\ p[2] = "e1"  -> 70
       [] p[1] = <<"x">> /\ p[2] = "e1a" -> 90
       [] p[1] = <<"x">> /\ p[2] = "e2"  -> 70
       [] OTHER -> 0]

\* util.pytorch_cos_sim of the embeddings of a text and a variant
cos_sim(user_text, variant) == model[<<user_text, variant>>]

\* variant: the last maximal value wins
argmax_last(sims) ==
  CHOOSE i \in DOMAIN sims :
    /\ \A k \in DOMAIN sims : sims[k] <= sims[i]
    /\ \A k \in DOMAIN sims : sims[k] = sims[i] => k <= i

\* scores.argmax(): index of the first maximal value
argmax(sims) ==
  CHOOSE i \in DOMAIN sims :
    /\ \A k \in DOMAIN sims : sims[k] <= sims[i]
    /\ \A k \in DOMAIN sims : sims[k] = sims[i] => i <= k

compute_score_and_best(user_text, variants) ==
  LET sims == [i \in DOMAIN variants |-> cos_sim(user_text, variants[i])]
      best_idx == argmax(sims)
      best_score == sims[best_idx]
  IN <<best_score, variants[best_idx]>>

\* [entry["english"]] + entry.get("alternatives", [])
all_variants(entry) ==
  <<entry.english>> \o
    (IF "alternatives" \in DOMAIN entry THEN entry.alternatives ELSE <<>>)

\* ------------------------------------------------------------ arithmetic
RECURSIVE sum(_)
sum(s) == IF s = <<>> THEN 0 ELSE Head(s) + sum(Tail(s))

\* f"{average_score:.4f}" of total/count hundredths: the number of
\* ten-thousandths nearest to the mean, ties to even
Format4(total, count) ==
  LET num == total * 100
      q == num \div count
      r == num % count
  IN IF 2 * r > count THEN q + 1
     ELSE IF 2 * r < count THEN q
     ELSE IF q % 2 = 0 THEN q ELSE q + 1

\* variant: a strict comparison
PassFail_strict(total, count) ==
  IF total > THRESHOLD * count THEN "Pass" ELSE "Fail"

\* "Pass" if average_score >= THRESHOLD else "Fail"
PassFail(total, count) ==
  IF total >= THRESHOLD * count THEN "Pass" ELSE "Fail"

\* ----------------------------------------------------------------- state
VARIABLES
  student_name,        \* st.text_input("Your Name")
  student_number,      \* st.text_input("Student Number")
  selected_japanese,   \* st.selectbox(...)
  user_input,          \* st.text_input("Your answer:")
  last_score,          \* st.session_state.last_score
  last_variant,        \* st.session_state.last_variant
  scores,              \* st.session_state.scores
  attempted_questions, \* st.session_state.attempted_questions
  sheet,               \* the cached result of get_gsheet()
  rows,                \* the rows of the spreadsheet appended by this program
  run,                 \* what the latest rerun of the script did
  submitted,           \* history: the values line 132 appended since the
                       \* start or the latest row written
  tries,               \* history: the Try reruns that completed scoring
                       \* since the start or the latest row written
  tried,               \* history: the answer, sentence and variants the
                       \* Try that set last_score was scored on
  pending              \* history: the scores a Finish left behind when the
                       \* sheet failed, until a Submit or a written row

widgets == <<student_name, student_number, selected_japanese, user_input>>
session == <<last_score, last_variant, scores, attempted_questions>>
vars == <<student_name, student_number, selected_japanese, user_input,
          last_score, last_variant, scores, attempted_questions,
          sheet, model, rows, run, submitted, tries, tried, pending>>
history == <<submitted, tries, tried, pending>>

\* a rerun: the button pressed, what the handler reported, and whether it
\* called compute_score_and_best
Ran(button, result, encoded) ==
  [button |-> button, result |-> result, encoded |-> encoded]

\* the rerun of a Finish that wrote a row; retry_of holds the scores an
\* earlier Finish left behind when the sheet failed, if no Submit came between
Saved(retry_of) ==
  [button |-> "finish", result |-> "success", encoded |-> FALSE,
   retry_of |-> retry_of]

entry == japanese_to_entry[selected_japanese]

Init ==
  /\ student_name = <<>>
  /\ student_number = <<>>
  /\ selected_japanese = Keys[1]
  /\ user_input = <<>>
  /\ last_score = None
  /\ last_variant = None
  /\ scores = <<>>
  /\ attempted_questions = 0
  /\ sheet \in {"None", "sheet1"}
  /\ model = loaded_model
  /\ rows = <<>>
  /\ run = Ran("none", "none", FALSE)
  /\ submitted = <<>>
  /\ tries = 0
  /\ tried = None
  /\ pending = None

\* ---------------------------------------------------- reruns, no button
\* a widget reruns the script when its value changes
EditName ==
  /\ \E v \in NameInputs \ {student_name} : student_name' = v
  /\ run' = Ran("none", "none", FALSE)
  /\ UNCHANGED
       <<student_number, selected_japanese, user_input, session, sheet, model, rows, history>>

EditNumber ==
  /\ \E v \in NumberInputs \ {student_number} : student_number' = v
  /\ run' = Ran("none", "none", FALSE)
  /\ UNCHANGED
       <<student_name, selected_japanese, user_input, session, sheet, model, rows, history>>

SelectSentence ==
  /\ \E j \in KeySet \ {selected_japanese} : selected_japanese' = j
  /\ run' = Ran("none", "none", FALSE)
  /\ UNCHANGED
       <<student_name, student_number, user_input, session, sheet, model, rows, history>>

EditAnswer ==
  /\ \E v \in AnswerInputs \ {user_input} : user_input' = v
  /\ run' = Ran("none", "none", FALSE)
  /\ UNCHANGED
       <<student_name, student_number, selected_japanese, session, sheet, model, rows, history>>

\* ------------------------------------------------------ Try Translation
\* variant: the attempt is counted before the answer is validated
TryRejected_counts ==
  /\ Strip(user_input) = <<>>
  /\ run' = Ran("try", "warning", FALSE)
  /\ attempted_questions' = attempted_questions + 1
  /\ UNCHANGED
       <<widgets, last_score, last_variant, scores, sheet, model, rows, history>>

TryRejected ==
  /\ Strip(user_input) = <<>>
  /\ run' = Ran("try", "warning", FALSE)
  /\ UNCHANGED <<widgets, session, sheet, model, rows, history>>

\* variant: the attempt is counted before the scorer is called
TryRaises_counts ==
  /\ Strip(user_input) # <<>>
  /\ attempted_questions' = attempted_questions + 1
  /\ run' = Ran("try", "exception", TRUE)
  /\ UNCHANGED
       <<widgets, last_score, last_variant, scores, sheet, model, rows, history>>

\* model.encode raises: the exception leaves the handler before line 105
TryRaises ==
  /\ Strip(user_input) # <<>>
  /\ run' = Ran("try", "exception", TRUE)
  /\ UNCHANGED <<widgets, session, sheet, model, rows, history>>

\* variant: the try handler also records the score
TryScored_appends ==
  /\ Strip(user_input) # <<>>
  /\ attempted_questions < MaxAttempts
  /\ LET best == compute_score_and_best(user_input, all_variants(entry))
     IN /\ last_score' = Some(best[1])
        /\ last_variant' = Some(best[2])
        /\ scores' = Append(scores, best[1])
  /\ attempted_questions' = attempted_questions + 1
  /\ tries' = tries + 1
  /\ tried' = Some([user_input |-> user_input,
                    japanese |-> selected_japanese,
                    variants |-> all_variants(entry)])
  /\ run' = Ran("try", "success", TRUE)
  /\ UNCHANGED <<widgets, sheet, model, rows, submitted, pending>>

\* variant: a higher cached score is kept
TryScored_keepsBest ==
  /\ Strip(user_input) # <<>>
  /\ attempted_questions < MaxAttempts
  /\ LET best == compute_score_and_best(user_input, all_variants(entry))
     IN IF last_score # None /\ last_score[1] > best[1]
        THEN UNCHANGED <<last_score, last_variant>>
        ELSE /\ last_score' = Some(best[1])
             /\ last_variant' = Some(best[2])
  /\ attempted_questions' = attempted_questions + 1
  /\ tries' = tries + 1
  /\ tried' = Some([user_input |-> user_input,
                    japanese |-> selected_japanese,
                    variants |-> all_variants(entry)])
  /\ run' = Ran("try", "success", TRUE)
  /\ UNCHANGED <<widgets, scores, sheet, model, rows, submitted, pending>>

TryScored ==
  /\ Strip(user_input) # <<>>
  /\ attempted_questions < MaxAttempts
  /\ LET best == compute_score_and_best(user_input, all_variants(entry))
     IN /\ last_score' = Some(best[1])
        /\ last_variant' = Some(best[2])
  /\ attempted_questions' = attempted_questions + 1
  /\ tries' = tries + 1
  /\ tried' = Some([user_input |-> user_input,
                    japanese |-> selected_japanese,
                    variants |-> all_variants(entry)])
  /\ run' = Ran("try", "success", TRUE)
  /\ UNCHANGED <<widgets, scores, sheet, model, rows, submitted, pending>>

Try == TryRejected \/ TryRaises \/ TryScored

\* ------------------------------------------------- Submit this translation
\* variant: "and" in place of "or"
IdentityMissing_and ==
  Strip(student_name) = <<>> /\ Strip(student_number) = <<>>

IdentityMissing ==
  Strip(student_name) = <<>> \/ Strip(student_number) = <<>>

SubmitRejected ==
  /\ IdentityMissing \/ Strip(user_input) = <<>>
  /\ run' = Ran("submit", "warning", FALSE)
  /\ UNCHANGED <<widgets, session, sheet, model, rows, history>>

\* model.encode raises at line 128, before the append of line 132
SubmitRaises ==
  /\ ~IdentityMissing
  /\ Strip(user_input) # <<>>
  /\ last_score = None
  /\ run' = Ran("submit", "exception", TRUE)
  /\ UNCHANGED <<widgets, session, sheet, model, rows, history>>

\* variant: the score is inserted at the front of the list
SubmitRecorded_prepends ==
  /\ ~IdentityMissing
  /\ Strip(user_input) # <<>>
  /\ Len(scores) < MaxScores
  /\ LET best_score ==
           IF last_score = None
           THEN compute_score_and_best(user_input, all_variants(entry))[1]
           ELSE last_score[1]
     IN /\ scores' = <<best_score>> \o scores
        /\ submitted' = Append(submitted, best_score)
  /\ last_score' = None
  /\ last_variant' = None
  /\ pending' = None
  /\ tried' = None
  /\ run' = Ran("submit", "success", last_score = None)
  /\ UNCHANGED <<widgets, attempted_questions, sheet, model, rows, tries>>

\* variant: the score is always computed again
SubmitRecorded_recomputes ==
  /\ ~IdentityMissing
  /\ Strip(user_input) # <<>>
  /\ Len(scores) < MaxScores
  /\ LET best_score ==
           compute_score_and_best(user_input, all_variants(entry))[1]
     IN /\ scores' = Append(scores, best_score)
        /\ submitted' = Append(submitted, best_score)
  /\ last_score' = None
  /\ last_variant' = None
  /\ pending' = None
  /\ tried' = None
  /\ run' = Ran("submit", "success", TRUE)
  /\ UNCHANGED <<widgets, attempted_questions, sheet, model, rows, tries>>

\* variant: the cached score is not reset
SubmitRecorded_keepsCache ==
  /\ ~IdentityMissing
  /\ Strip(user_input) # <<>>
  /\ Len(scores) < MaxScores
  /\ LET best_score ==
           IF last_score = None
           THEN compute_score_and_best(user_input, all_variants(entry))[1]
           ELSE last_score[1]
     IN /\ scores' = Append(scores, best_score)
        /\ submitted' = Append(submitted, best_score)
  /\ pending' = None
  /\ tried' = None
  /\ run' = Ran("submit", "success", last_score = None)
  /\ UNCHANGED <<widgets, last_score, last_variant, attempted_questions, sheet, model, rows, tries>>

\* variant: only last_score is reset
SubmitRecorded_keepsVariant ==
  /\ ~IdentityMissing
  /\ Strip(user_input) # <<>>
  /\ Len(scores) < MaxScores
  /\ LET best_score ==
           IF last_score = None
           THEN compute_score_and_best(user_input, all_variants(entry))[1]
           ELSE last_score[1]
     IN /\ scores' = Append(scores, best_score)
        /\ submitted' = Append(submitted, best_score)
  /\ last_score' = None
  /\ pending' = None
  /\ tried' = None
  /\ run' = Ran("submit", "success", last_score = None)
  /\ UNCHANGED <<widgets, last_variant, attempted_questions, sheet, model, rows, tries>>

SubmitRecorded ==
  /\ ~IdentityMissing
  /\ Strip(user_input) # <<>>
  /\ Len(scores) < MaxScores
  /\ LET best_score ==
           IF last_score = None
           THEN compute_score_and_best(user_input, all_variants(entry))[1]
           ELSE last_score[1]
     IN /\ scores' = Append(scores, best_score)
        /\ submitted' = Append(submitted, best_score)
  /\ last_score' = None
  /\ last_variant' = None
  /\ pending' = None
  /\ tried' = None
  /\ run' = Ran("submit", "success", last_score = None)
  /\ UNCHANGED <<widgets, attempted_questions, sheet, model, rows, tries>>

Submit == SubmitRejected \/ SubmitRaises \/ SubmitRecorded

\* ------------------------------------------------------- Finish Session
FinishRejected ==
  /\ IdentityMissing \/ scores = <<>>
  /\ run' = Ran("finish", "warning", FALSE)
  /\ UNCHANGED <<widgets, session, sheet, model, rows, history>>

\* variant: the reset runs although there is no sheet
FinishNoSheet_clears ==
  /\ ~IdentityMissing
  /\ scores # <<>>
  /\ sheet = "None"
  /\ pending' = Some(scores)
  /\ run' = Ran("finish", "error", FALSE)
  /\ scores' = <<>>
  /\ attempted_questions' = 0
  /\ UNCHANGED
       <<widgets, last_score, last_variant, sheet, model, rows, submitted, tries, tried>>

FinishNoSheet ==
  /\ ~IdentityMissing
  /\ scores # <<>>
  /\ sheet = "None"
  /\ pending' = Some(scores)
  /\ run' = Ran("finish", "error", FALSE)
  /\ UNCHANGED <<widgets, session, sheet, model, rows, submitted, tries, tried>>

\* variant: the reset runs although the append raised
FinishAppendFails_clears ==
  /\ ~IdentityMissing
  /\ scores # <<>>
  /\ sheet # "None"
  /\ scores' = <<>>
  /\ attempted_questions' = 0
  /\ pending' = Some(scores)
  /\ run' = Ran("finish", "error", FALSE)
  /\ UNCHANGED <<widgets, last_score, last_variant, sheet, model, rows, submitted, tries, tried>>

\* variant: a Finish with no scores is not rejected
FinishAppendFails_ignoresEmpty ==
  /\ ~IdentityMissing
  /\ sheet # "None"
  /\ pending' = Some(scores)
  /\ run' = Ran("finish", "error", FALSE)
  /\ UNCHANGED <<widgets, session, sheet, model, rows, submitted, tries, tried>>

\* sheet.append_row raises: the except clause of line 165 reports it
FinishAppendFails ==
  /\ ~IdentityMissing
  /\ scores # <<>>
  /\ sheet # "None"
  /\ pending' = Some(scores)
  /\ run' = Ran("finish", "error", FALSE)
  /\ UNCHANGED <<widgets, session, sheet, model, rows, submitted, tries, tried>>

\* variant: the row is sent a second time
FinishSaved_appendsTwice ==
  /\ ~IdentityMissing
  /\ scores # <<>>
  /\ sheet # "None"
  /\ Len(rows) < MaxRows
  /\ \E timestamp \in Timestamps :
       LET row == [timestamp |-> timestamp,
                   student_name |-> student_name,
                   student_number |-> student_number,
                   average_score |-> Format4(sum(scores), Len(scores)),
                   pass_fail |-> PassFail(sum(scores), Len(scores)),
                   number_of_questions |-> Len(scores)]
       IN rows' = rows \o <<row, row>>
  /\ scores' = <<>>
  /\ attempted_questions' = 0
  /\ submitted' = <<>>
  /\ tries' = 0
  /\ pending' = None
  /\ run' = Saved(pending)
  /\ UNCHANGED <<widgets, last_score, last_variant, sheet, model, tried>>

\* variant: the attempt counter is left as it was
FinishSaved_keepsAttempts ==
  /\ ~IdentityMissing
  /\ scores # <<>>
  /\ sheet # "None"
  /\ Len(rows) < MaxRows
  /\ \E timestamp \in Timestamps :
       rows' = Append(rows,
         [timestamp |-> timestamp,
          student_name |-> student_name,
          student_number |-> student_number,
          average_score |-> Format4(sum(scores), Len(scores)),
          pass_fail |-> PassFail(sum(scores), Len(scores)),
          number_of_questions |-> Len(scores)])
  /\ scores' = <<>>
  /\ submitted' = <<>>
  /\ tries' = 0
  /\ pending' = None
  /\ run' = Saved(pending)
  /\ UNCHANGED <<widgets, last_score, last_variant, attempted_questions, sheet, model, tried>>

\* variant: the question count is taken from the attempt counter
FinishSaved_countsAttempts ==
  /\ ~IdentityMissing
  /\ scores # <<>>
  /\ sheet # "None"
  /\ Len(rows) < MaxRows
  /\ \E timestamp \in Timestamps :
       rows' = Append(rows,
         [timestamp |-> timestamp,
          student_name |-> student_name,
          student_number |-> student_number,
          average_score |-> Format4(sum(scores), Len(scores)),
          pass_fail |-> PassFail(sum(scores), Len(scores)),
          number_of_questions |-> attempted_questions])
  /\ scores' = <<>>
  /\ attempted_questions' = 0
  /\ submitted' = <<>>
  /\ tries' = 0
  /\ pending' = None
  /\ run' = Saved(pending)
  /\ UNCHANGED <<widgets, last_score, last_variant, sheet, model, tried>>

FinishSaved ==
  /\ ~IdentityMissing
  /\ scores # <<>>
  /\ sheet # "None"
  /\ Len(rows) < MaxRows
  /\ \E timestamp \in Timestamps :
       rows' = Append(rows,
         [timestamp |-> timestamp,
          student_name |-> student_name,
          student_number |-> student_number,
          average_score |-> Format4(sum(scores), Len(scores)),
          pass_fail |-> PassFail(sum(scores), Len(scores)),
          number_of_questions |-> Len(scores)])
  /\ scores' = <<>>
  /\ attempted_questions' = 0
  /\ submitted' = <<>>
  /\ tries' = 0
  /\ pending' = None
  /\ run' = Saved(pending)
  /\ UNCHANGED <<widgets, last_score, last_variant, sheet, model, tried>>

Finish == FinishRejected \/ FinishNoSheet \/ FinishAppendFails \/ FinishSaved

Next ==
  \/ EditName \/ EditNumber \/ SelectSentence \/ EditAnswer
  \/ Try \/ Submit \/ Finish

Spec == Init /\ [][Next]_vars

\* ------------------------------------------- the scorer on its own inputs
ScoreTexts == {<<"x">>, <<"y">>}
ScoreVariants == {"a", "b", "c"}
SimValues == {-20, 70, 90}

VariantLists ==
  UNION {[1..n -> ScoreVariants] : n \in 1..MaxVariants}

\* a call of compute_score_and_best: its variants and what it returned
Applied(variants, result) ==
  [button |-> "score", result |-> result, encoded |-> TRUE,
   variants |-> variants]

ScoreInit ==
  /\ model \in [ScoreTexts \X ScoreVariants -> SimValues]
  /\ user_input \in ScoreTexts
  /\ student_name = <<>>
  /\ student_number = <<>>
  /\ selected_japanese = Keys[1]
  /\ last_score = None
  /\ last_variant = None
  /\ scores = <<>>
  /\ attempted_questions = 0
  /\ sheet = "None"
  /\ rows = <<>>
  /\ run = Ran("none", "none", FALSE)
  /\ submitted = <<>>
  /\ tries = 0
  /\ tried = None
  /\ pending = None

\* one call on the inputs drawn
ScoreApply ==
  /\ run.button = "none"
  /\ \E variants \in VariantLists :
       run' = Applied(variants, compute_score_and_best(user_input, variants))
  /\ UNCHANGED
       <<widgets, session, sheet, model, rows, history>>

SpecScore == ScoreInit /\ [][ScoreApply]_vars

\* ================================================================ claims
Abs(n) == IF n < 0 THEN 0 - n ELSE n

RECURSIVE Total(_, _)
Total(s, n) == IF n = 0 THEN 0 ELSE s[n] + Total(s, n - 1)

NameGiven == Strip(student_name) # <<>>
NumberGiven == Strip(student_number) # <<>>
AnswerGiven == Strip(user_input) # <<>>
LastRow == rows[Len(rows)]
FinishSucceeded == run.button = "finish" /\ run.result = "success"

\* C1: a Submit that passes validation and whose scoring does not fail
\* appends exactly one value at the end of scores and changes no earlier one.
C1_SubmitAppendsOne ==
  [][ ( /\ run'.button = "submit"
        /\ NameGiven /\ NumberGiven /\ AnswerGiven
        /\ run'.result # "exception" )
      => ( /\ Len(scores') = Len(scores) + 1
           /\ SubSeq(scores', 1, Len(scores)) = scores ) ]_vars

C1_Witness ==
  /\ run.button = "submit" /\ run.result = "success"
  /\ Len(scores) = 2 /\ scores[1] # scores[2]

\* C2: no Try (accepted, rejected or failing in the scorer) changes scores.
C2_TryKeepsScores ==
  [][ run'.button = "try" => scores' = scores ]_vars

C2_Witness ==
  /\ run.button = "try" /\ run.result = "success"
  /\ scores # <<>> /\ last_score # None

\* C3: right after a Finish that succeeded, scores is empty and the attempt
\* counter is 0.
C3_FinishResets ==
  FinishSucceeded => (scores = <<>> /\ attempted_questions = 0)

C3_Witness ==
  /\ FinishSucceeded
  /\ Len(rows) = 1 /\ LastRow.number_of_questions = 2

\* C4: a Finish that fails at the sink (no sheet, or the append raises)
\* leaves the session state as it was and adds no row.
C4_SinkFailureKeepsState ==
  [][ ( run'.button = "finish" /\ run'.result = "error" )
      => ( /\ NameGiven /\ NumberGiven /\ scores # <<>>
           /\ UNCHANGED <<last_score, last_variant, scores, attempted_questions>>
           /\ rows' = rows ) ]_vars

C4_Witness ==
  /\ run.button = "finish" /\ run.result = "error"
  /\ sheet # "None"
  /\ Len(scores) = 2 /\ attempted_questions > 0 /\ last_score # None

\* C5: an event rejected by validation changes neither the session state nor
\* the rows of the sheet; a Finish with no scores appends no row.
C5_RejectedKeepsState ==
  [][ ( \/ run'.button = "try" /\ ~AnswerGiven
        \/ run'.button = "submit" /\ (~NameGiven \/ ~NumberGiven \/ ~AnswerGiven)
        \/ run'.button = "finish" /\ (~NameGiven \/ ~NumberGiven \/ scores = <<>>) )
      => ( /\ run'.result = "warning"
           /\ UNCHANGED <<last_score, last_variant, scores, attempted_questions>>
           /\ rows' = rows ) ]_vars

C5_Witness ==
  /\ run.button = "submit" /\ run.result = "warning"
  /\ ~NameGiven /\ NumberGiven /\ AnswerGiven
  /\ last_score # None /\ scores # <<>>

\* C6: the row written by a successful Finish carries the mean (to four
\* decimals) and the number of the values that Submit appended since the
\* start or since the latest successful Finish.
C6_RowCarriesMean ==
  [][ ( run'.button = "finish" /\ run'.result = "success" )
      => ( /\ Len(rows') = Len(rows) + 1
           /\ rows'[Len(rows')].number_of_questions = Len(submitted)
           /\ 2 * Abs(rows'[Len(rows')].average_score * Len(submitted)
                        - 100 * Total(submitted, Len(submitted)))
                <= Len(submitted) ) ]_vars

C6_Witness ==
  /\ FinishSucceeded
  /\ LastRow.number_of_questions = 2 /\ LastRow.average_score = 8000

\* C7: the row says Pass exactly when the mean of scores is at least 0.80.
C7_PassIffMeanAtLeastThreshold ==
  [][ ( run'.button = "finish" /\ run'.result = "success" )
      => ( /\ rows'[Len(rows')].pass_fail \in {"Pass", "Fail"}
           /\ rows'[Len(rows')].pass_fail = "Pass"
                <=> Total(scores, Len(scores)) >= 80 * Len(scores) ) ]_vars

\* the boundary: a mean of exactly 0.80 is Pass
C7_Witness ==
  /\ FinishSucceeded
  /\ LastRow.average_score = 8000 /\ LastRow.pass_fail = "Pass"

\* C8: an accepted Submit appends the cached last_score without calling the
\* scorer when one is cached, and the freshly computed score otherwise.
C8_SubmitUsesCacheOrComputes ==
  [][ ( run'.button = "submit" /\ run'.result = "success" )
      => IF last_score # None
         THEN /\ scores' = Append(scores, last_score[1])
              /\ ~run'.encoded
         ELSE /\ scores' =
                   Append(scores,
                     compute_score_and_best(user_input, all_variants(entry))[1])
              /\ run'.encoded ]_vars

\* a cached score was appended that differs from the score of the current
\* answer and sentence
C8_Witness ==
  /\ run.button = "submit" /\ run.result = "success" /\ ~run.encoded
  /\ scores[Len(scores)] #
       compute_score_and_best(user_input, all_variants(entry))[1]

\* C9: right after a Finish that succeeded the whole session state is empty:
\* scores, the attempt counter, last_score and last_variant.
C9_FinishResetsAll ==
  FinishSucceeded =>
    ( /\ scores = <<>> /\ attempted_questions = 0
      /\ last_score = None /\ last_variant = None )

\* C10: when the scorer fails, in a Try or in a Submit with nothing cached,
\* the session state is left as it was.
C10_ScorerFailureKeepsState ==
  [][ run'.result = "exception"
      => ( /\ run'.button \in {"try", "submit"}
           /\ run'.encoded
           /\ run'.button = "submit" => last_score = None
           /\ UNCHANGED <<last_score, last_variant, scores, attempted_questions>> ) ]_vars

C10_Witness ==
  /\ run.button = "try" /\ run.result = "exception"
  /\ last_score # None /\ scores # <<>> /\ attempted_questions > 0

C12_ScoreIsStableArgmax ==
  run.button = "score" =>
    LET vs == run.variants
        best == run.result
        sim(i) == model[<<user_input, vs[i]>>]
    IN /\ \A i \in DOMAIN vs : sim(i) <= best[1]
       /\ \E i \in DOMAIN vs :
            /\ sim(i) = best[1]
            /\ \A k \in 1..(i - 1) : sim(k) < best[1]
            /\ best[2] = vs[i]

\* a tie for the maximum between two different variants, neither of them first
C12_Witness ==
  /\ run.button = "score"
  /\ Len(run.variants) = 3
  /\ run.variants[2] # run.variants[3]
  /\ model[<<user_input, run.variants[2]>>] = model[<<user_input, run.variants[3]>>]
  /\ model[<<user_input, run.variants[1]>>] < model[<<user_input, run.variants[2]>>]
  /\ run.result[2] = run.variants[2]

\* C13: a sink failure loses no recorded work: while the scores a failed
\* Finish left behind are pending (no Submit since), scores still holds them,
\* and the row a later Finish writes carries their mean and their count.
\* Nothing retries by itself: the row is written by that later Finish rerun.
C13_RetryWritesSameScores ==
  /\ pending # None => scores = pending[1]
  /\ (FinishSucceeded /\ run.retry_of # None) =>
       LET kept == run.retry_of[1]
       IN /\ LastRow.number_of_questions = Len(kept)
          /\ 2 * Abs(LastRow.average_score * Len(kept)
                       - 100 * Total(kept, Len(kept)))
               <= Len(kept)

C13_Witness ==
  /\ FinishSucceeded
  /\ run.retry_of # None
  /\ Len(run.retry_of[1]) = 2

\* C14: in every state the attempt counter is the number of Try reruns that
\* completed scoring since the start or the latest successful Finish; no
\* Submit, rejected event or failed Finish changes it.
C14_AttemptsCountTries ==
  attempted_questions = tries

\* a Submit after two tries left the counter at 2
C14_Witness ==
  /\ run.button = "submit" /\ run.result = "success"
  /\ attempted_questions = 2

\* C15: a Try with a non-empty answer whose scoring succeeds stores the
\* scorer's result in last_score and last_variant (over any cached score),
\* adds exactly 1 to the attempt counter and leaves a score cached; the
\* identity fields play no part.
C15_TryCachesScore ==
  [][ ( run'.button = "try" /\ AnswerGiven /\ run'.result # "exception" )
      => LET best == compute_score_and_best(user_input, all_variants(entry))
         IN /\ run'.result = "success"
            /\ last_score' = Some(best[1])
            /\ last_variant' = Some(best[2])
            /\ attempted_questions' = attempted_questions + 1 ]_vars

\* a second Try in a row, with no name given, replaced a cached 0.90 by 0.70
C15_Witness ==
  /\ run.button = "try" /\ run.result = "success"
  /\ ~NameGiven
  /\ attempted_questions = 2 /\ scores = <<>> /\ rows = <<>>
  /\ last_score = Some(70)

\* C16: right after an accepted Submit last_score and last_variant are both
\* empty, whether the Submit used a cached score or computed one.
C16_SubmitClearsCache ==
  (run.button = "submit" /\ run.result = "success")
    => (last_score = None /\ last_variant = None)

C16_Witness ==
  /\ run.button = "submit" /\ run.result = "success" /\ ~run.encoded
  /\ Len(scores) = 1 /\ attempted_questions = 1

\* C17 as stated: every value Submit appends is the score of the answer and
\* the sentence current at that Submit.
C17_SubmitScoresCurrent ==
  [][ ( run'.button = "submit" /\ run'.result = "success" )
      => scores'[Len(scores')] =
           compute_score_and_best(user_input, all_variants(entry))[1] ]_vars

\* C17 amended: the value Submit appends is the score of the answer and the
\* sentence that were current at the Try that cached it when a score is
\* cached, and of those current at the Submit only when none is cached.
C17_SubmitScoresTriedOrCurrent ==
  [][ ( run'.button = "submit" /\ run'.result = "success" )
      => scores'[Len(scores')] =
           IF last_score # None
           THEN compute_score_and_best(
                  tried[1].user_input,
                  all_variants(japanese_to_entry[tried[1].japanese]))[1]
           ELSE compute_score_and_best(user_input, all_variants(entry))[1] ]_vars

\* the sentence was changed between the Try and the Submit
C17_Witness ==
  /\ run.button = "submit" /\ run.result = "success" /\ ~run.encoded
  /\ selected_japanese = "j2"
  /\ scores[Len(scores)] = 90

\* C18: last_score and last_variant are both empty or both set, and when set
\* last_variant is an element of the variants list the Try that set them
\* scored against.
C18_CacheIsConsistent ==
  /\ last_score = None <=> last_variant = None
  /\ last_variant # None =>
       /\ tried # None
       /\ \E i \in DOMAIN tried[1].variants :
            tried[1].variants[i] = last_variant[1]

\* the cached variant belongs to the sentence tried, not to the one selected now
C18_Witness ==
  /\ last_variant = Some("e1a")
  /\ selected_japanese = "j2"

\* C19: the mean is never taken over an empty scores list: a Finish that got
\* as far as the sheet had scores, and every row written counts at least one
\* question.
C19_MeanOverNonEmpty ==
  /\ \A i \in DOMAIN rows : rows[i].number_of_questions >= 1
  /\ (run.button = "finish" /\ run.result = "error") => scores # <<>>

\* a Finish with no scores was rejected after a row had been written
C19_Witness ==
  /\ run.button = "finish" /\ run.result = "warning"
  /\ NameGiven /\ NumberGiven /\ scores = <<>>
  /\ Len(rows) = 1
====
